---------------------------- MODULE Spec2Model ----------------------------
(***************************************************************************)
(* Signaling and session relay core of priyo-voice-agent.                  *)
(*                                                                         *)
(* One client connection of VoiceAgentServer (server.js) with the two      *)
(* services the server attaches to it:                                     *)
(*   - OpenAIRealtimeService (services/openai-realtime.js), specification  *)
(*     Spec: the upstream WebSocket life cycle, audio forwarding and the   *)
(*     translation of upstream events;                                     *)
(*   - WebRTCSignaling (services/webrtc-signaling.js), specification       *)
(*     SpecRtc: offer / answer / ICE candidate handling.                   *)
(* The two services share no state, so each is explored on its own;        *)
(* SpecSession runs the dispatcher over both, for what a message or the    *)
(* close of the client socket does to the two together.                    *)
(***************************************************************************)
EXTENDS Integers, Sequences, FiniteSets, TLC

(***************************************************************************)
(* Bounds of the exploration.                                              *)
(***************************************************************************)
\* client messages the dispatcher processes in one run
MaxMsgs == 3

VARIABLES
    \* ---- OpenAIRealtimeService fields -------------------------------
    ws,             \* this.ws: 0 is null, otherwise an index into socks
    isConnected,    \* this.isConnected
    eventHandlers,  \* this.eventHandlers: event name -> sequence of handlers
    \* ---- the ws library's sockets created by startSession ------------
    socks,          \* sequence of [readyState, sent, closeCalls]
    \* ---- the client socket and the event loop ------------------------
    clientOpen,     \* the client WebSocket is open
    clientOut,      \* messages sent to the client, in order
    pending,        \* continuations of suspended handlers (microtask queue)
    \* ---- history ------------------------------------------------------
    inLog,          \* client messages dispatched so far, in order
    lastUp,         \* the upstream event delivered last (type "none" before the first)
    uncaught,       \* an exception has left an event listener: the process is gone
    \* ---- WebRTCSignaling fields --------------------------------------
    peerConnection, \* this.peerConnection: 0 is null, 1 the RTCPeerConnection
    iceCandidates,  \* this.iceCandidates: stored candidates, in arrival order
    isInitialized,  \* this.isInitialized
    \* ---- the RTCPeerConnection created by createPeerConnection --------
    pc,             \* [signalingState, remoteDescription, localDescription,
                    \*  closeCalls, iceAdded, iceRejected]
    opChain,        \* its operations chain: calls made and not yet settled
    \* ---- history ------------------------------------------------------
    rtcLog,         \* signaling calls made so far, in order
    \* ---- N8NIntegration ----------------------------------------------
    isConfigured,   \* this.isConfigured: N8N_WEBHOOK_URL is set
    n8nInFlight,    \* axios.post calls of triggerWorkflow not yet settled
    lateSends,      \* ws.send calls made on the client socket after it closed
    \* ---- a second client connection ----------------------------------
    connB,          \* its two services, its socket and its handlers, as a record
    \* ---- the browser's WebSocketClient (public/js/audio-processor.js) --
    wsClient,       \* its fields, the WebSockets it created and its timers
    \* ---- the VoiceAgentApp and WebRTCClient of the browser -------------
    app,            \* isInitialized, isSessionActive, the recorder, replies owed
    webrtc          \* peerConnection, iceCandidates and the RTCPeerConnection

oaiVars == <<ws, isConnected, eventHandlers, socks, pending, inLog, lastUp, uncaught>>
cliVars == <<clientOpen, clientOut>>
rtcVars == <<peerConnection, iceCandidates, isInitialized, pc, opChain, rtcLog>>
n8nVars == <<isConfigured, n8nInFlight, lateSends>>
\* what lies outside the two services of the connection
\* the browser side
browserVars == <<wsClient, app, webrtc>>
outerVars == <<n8nVars, connB, browserVars>>
\* everything on the server
serverVars == <<oaiVars, cliVars, rtcVars, n8nVars, connB>>
vars    == <<oaiVars, cliVars, rtcVars, outerVars>>

(***************************************************************************)
(* Payloads.                                                               *)
(***************************************************************************)
AudioChunks == {"a1", "a2"}
Deltas      == {"d1", "d2"}

NoHandlers == [e \in {} |-> <<>>]

Msg(t, d) == [type |-> t, data |-> d]

(***************************************************************************)
(* The ws library: a socket as OpenAIRealtimeService sees it.              *)
(***************************************************************************)
NewSocket == [readyState |-> "CONNECTING", sent |-> <<>>, closeCalls |-> 0]

\* ws.close(): never throws; an established or connecting socket starts closing
wsClose(sock) ==
    [sock EXCEPT !.readyState = IF @ = "CLOSED" THEN "CLOSED" ELSE "CLOSING",
                 !.closeCalls = @ + 1]

Live(sock) == sock.readyState \in {"CONNECTING", "OPEN"}

(***************************************************************************)
(* OpenAIRealtimeService, as functions of the service state                *)
(* s = [ws, isConnected, socks].                                           *)
(***************************************************************************)
Svc == [ws |-> ws, isConnected |-> isConnected, socks |-> socks]

\* startSession without its "already active" guard
startSession_NoGuard(s) ==
    [s EXCEPT !.socks = Append(@, NewSocket), !.ws = Len(s.socks) + 1]

startSession(s) ==
    IF s.isConnected
    THEN s
    ELSE [s EXCEPT !.socks = Append(@, NewSocket), !.ws = Len(s.socks) + 1]

\* sendToOpenAI whose message overtakes the ones sent before it
sendToOpenAI_Overtakes(s, m) ==
    IF s.ws # 0 /\ s.socks[s.ws].readyState = "OPEN"
    THEN [s EXCEPT !.socks[s.ws].sent = <<m>> \o @]
    ELSE s

sendToOpenAI(s, m) ==
    IF s.ws # 0 /\ s.socks[s.ws].readyState = "OPEN"
    THEN [s EXCEPT !.socks[s.ws].sent = Append(@, m)]
    ELSE s

SessionConfig == Msg("session.update", "config")

initializeSession(s) == sendToOpenAI(s, SessionConfig)

\* sendAudioData without its connection guard
sendAudioData_NoGuard(s, audioData) ==
    IF s.ws = 0
    THEN s
    ELSE [s EXCEPT !.socks[s.ws].sent =
                       Append(@, Msg("input_audio_buffer.append", audioData))]

\* The payload of a parsed JSON message is never a Buffer, so the
\* Buffer.isBuffer branch passes it on as it is.
sendAudioData(s, audioData) ==
    IF ~s.isConnected \/ s.ws = 0
    THEN s
    ELSE sendToOpenAI(s, Msg("input_audio_buffer.append", audioData))

\* endSession that keeps the handle of the socket it closed
endSession_KeepsHandle(s) ==
    IF s.ws # 0
    THEN [s EXCEPT !.socks[s.ws] = wsClose(@), !.isConnected = FALSE]
    ELSE [s EXCEPT !.isConnected = FALSE]

endSession(s) ==
    IF s.ws # 0
    THEN [s EXCEPT !.socks[s.ws] = wsClose(@), !.ws = 0, !.isConnected = FALSE]
    ELSE [s EXCEPT !.isConnected = FALSE]

\* handleOpenAIMessage: the internal event a protocol event is turned into
\* (type "none" when the switch emits nothing)
UpTypes == {"input_audio_buffer.speech_started",
            "input_audio_buffer.speech_stopped",
            "response.audio.delta", "response.audio.done",
            "response.text.delta",
            "response.done", "error", "session.updated", "x.unknown"}

HasDelta(t) == t \in {"response.audio.delta", "response.text.delta"}

UpEvents == {Msg(t, "") : t \in {u \in UpTypes : ~HasDelta(u)}}
            \cup {Msg(t, d) : t \in {u \in UpTypes : HasDelta(u)}, d \in Deltas}

\* a switch whose default branch emits an event for the tag it does not know
handleOpenAIMessage_RelaysUnknown(message) ==
    CASE message.type = "input_audio_buffer.speech_started" -> Msg("speech_started", "")
      [] message.type = "input_audio_buffer.speech_stopped" -> Msg("speech_stopped", "")
      [] message.type = "response.audio.delta" -> Msg("audio_response", message.data)
      [] message.type = "response.audio.done"  -> Msg("audio_complete", "")
      [] message.type = "response.text.delta"  -> Msg("text_response", message.data)
      [] message.type = "response.done"        -> Msg("response_complete", "")
      [] message.type = "error"                -> Msg("error", "")
      [] OTHER                                 -> Msg("unknown", message.type)

handleOpenAIMessage(message) ==
    CASE message.type = "input_audio_buffer.speech_started" -> Msg("speech_started", "")
      [] message.type = "input_audio_buffer.speech_stopped" -> Msg("speech_stopped", "")
      [] message.type = "response.audio.delta" -> Msg("audio_response", message.data)
      [] message.type = "response.audio.done"  -> Msg("audio_complete", "")
      [] message.type = "response.text.delta"  -> Msg("text_response", message.data)
      [] message.type = "response.done"        -> Msg("response_complete", "")
      [] message.type = "error"                -> Msg("error", "")
      [] OTHER                                 -> Msg("none", "")

\* tags whose case reads a field of an object the message must carry
\* (message.session.id, message.item.type, message.response.id)
FieldTypes == {"session.created", "conversation.item.created",
               "response.created", "response.output_item.added"}

\* the 'message' listener throws: JSON.parse on text that is not JSON, or the
\* case of a tag in FieldTypes on a message without the object (data "")
Throws(message) ==
    \/ message.type = "not-json"
    \/ message.type \in FieldTypes /\ message.data = ""

\* the frames the upstream delivers: the events of UpEvents, a session.created
\* with its session object, one without it, and text that is not JSON
UpFrames == UpEvents \cup {Msg("session.created", "s1"),
                           Msg("session.created", ""), Msg("not-json", "")}

\* emit(event, data): the handlers registered for the event, each with the data
emit(handlers, ev) ==
    IF ev.type \in DOMAIN handlers
    THEN [i \in 1..Len(handlers[ev.type]) |-> ev]
    ELSE <<>>

(***************************************************************************)
(* Actions of Spec.                                                        *)
(***************************************************************************)
\* the client messages the server has received
Received == Len(inLog) + Len(rtcLog) + connB.received

SetSvc(s) ==
    /\ ws' = s.ws
    /\ isConnected' = s.isConnected
    /\ socks' = s.socks

\* ws.send on the client socket
SendClient(m) == clientOut' = Append(clientOut, m)

\* 'message' on the client socket, type start_session, up to the await
ClientStart ==
    /\ ~uncaught
    /\ clientOpen
    /\ Received < MaxMsgs
    /\ SetSvc(startSession(Svc))
    /\ pending' = Append(pending, "session_started")
    /\ inLog' = Append(inLog, Msg("start_session", ""))
    /\ UNCHANGED <<eventHandlers, clientOpen, clientOut, lastUp, uncaught>>
    /\ UNCHANGED rtcVars
    /\ UNCHANGED outerVars

\* an end_session case that also calls webrtcSignaling.cleanup()
ClientEnd_CleansUp ==
    /\ ~uncaught
    /\ clientOpen
    /\ Received < MaxMsgs
    /\ SetSvc(endSession(Svc))
    /\ pending' = Append(pending, "session_ended")
    /\ inLog' = Append(inLog, Msg("end_session", ""))
    /\ peerConnection' = 0
    /\ iceCandidates' = <<>>
    /\ isInitialized' = FALSE
    /\ UNCHANGED <<eventHandlers, clientOpen, clientOut, lastUp, uncaught>>
    /\ UNCHANGED <<pc, opChain, rtcLog>>
    /\ UNCHANGED outerVars

\* 'message' on the client socket, type end_session, up to the await
ClientEnd ==
    /\ ~uncaught
    /\ clientOpen
    /\ Received < MaxMsgs
    /\ SetSvc(endSession(Svc))
    /\ pending' = Append(pending, "session_ended")
    /\ inLog' = Append(inLog, Msg("end_session", ""))
    /\ UNCHANGED <<eventHandlers, clientOpen, clientOut, lastUp, uncaught>>
    /\ UNCHANGED rtcVars
    /\ UNCHANGED outerVars

\* 'message' on the client socket, type audio_data
ClientAudio(p) ==
    /\ ~uncaught
    /\ clientOpen
    /\ Received < MaxMsgs
    /\ SetSvc(sendAudioData(Svc, p))
    /\ inLog' = Append(inLog, Msg("audio_data", p))
    /\ UNCHANGED <<eventHandlers, clientOpen, clientOut, pending, lastUp, uncaught>>
    /\ UNCHANGED rtcVars
    /\ UNCHANGED outerVars

\* client message types the switch of handleWebSocketMessage has no case for
\* (ping is the heartbeat of the browser client)
UnknownTypes == {"ping", "frobnicate"}

UnknownType(t) == Msg("error", "Unknown message type: " \o t)

\* a default branch that only logs the type
ClientUnknown_Silent(t) ==
    /\ ~uncaught
    /\ clientOpen
    /\ Received < MaxMsgs
    /\ inLog' = Append(inLog, Msg(t, ""))
    /\ UNCHANGED <<ws, isConnected, eventHandlers, socks, clientOpen, clientOut,
                   pending, lastUp, uncaught>>
    /\ UNCHANGED rtcVars
    /\ UNCHANGED outerVars

\* 'message' on the client socket, a type the switch has no case for: the
\* default branch replies at once
ClientUnknown(t) ==
    /\ ~uncaught
    /\ clientOpen
    /\ Received < MaxMsgs
    /\ SendClient(UnknownType(t))
    /\ inLog' = Append(inLog, Msg(t, ""))
    /\ UNCHANGED <<ws, isConnected, eventHandlers, socks, clientOpen, pending,
                   lastUp, uncaught>>
    /\ UNCHANGED rtcVars
    /\ UNCHANGED outerVars

InvalidFormat == Msg("error", "Invalid message format")

\* a catch block that replies and then drops the connection
ClientMalformed_Closes ==
    /\ ~uncaught
    /\ clientOpen
    /\ Received < MaxMsgs
    /\ SendClient(InvalidFormat)
    /\ clientOpen' = FALSE
    /\ inLog' = Append(inLog, Msg("malformed", ""))
    /\ UNCHANGED <<ws, isConnected, eventHandlers, socks, pending, lastUp, uncaught>>
    /\ UNCHANGED rtcVars
    /\ UNCHANGED outerVars

\* 'message' on the client socket, text JSON.parse rejects: the catch block
\* of the listener replies
ClientMalformed ==
    /\ ~uncaught
    /\ clientOpen
    /\ Received < MaxMsgs
    /\ SendClient(InvalidFormat)
    /\ inLog' = Append(inLog, Msg("malformed", ""))
    /\ UNCHANGED <<ws, isConnected, eventHandlers, socks, clientOpen, pending,
                   lastUp, uncaught>>
    /\ UNCHANGED rtcVars
    /\ UNCHANGED outerVars

(***************************************************************************)
(* N8NIntegration.triggerWorkflow and the trigger_n8n case.                *)
(***************************************************************************)
\* how an axios.post ends: a 2xx response, an error response, no response
\* (network error or the 10 s timeout), or an error setting the request up
Outcomes == {"success", "error.response", "error.request", "error.message"}

\* the webhook is not configured: triggerWorkflow returns before any await
NotConfigured == "success: false, message: N8N not configured"

\* what triggerWorkflow returns when its axios.post has ended
triggerWorkflow(outcome) ==
    CASE outcome = "success"        -> "success: true, data, status"
      [] outcome = "error.response" -> "success: false, error, status"
      [] outcome = "error.request"  -> "success: false, error: No response from N8N webhook"
      [] OTHER                      -> "success: false, error: message"

\* 'message' on the client socket, type trigger_n8n, up to the await
ClientN8n ==
    /\ ~uncaught
    /\ clientOpen
    /\ Received < MaxMsgs
    /\ inLog' = Append(inLog, Msg("trigger_n8n", ""))
    /\ IF isConfigured
       THEN /\ n8nInFlight' = n8nInFlight + 1
            /\ UNCHANGED pending
       ELSE /\ pending' = Append(pending, "n8n_response")
            /\ UNCHANGED n8nInFlight
    /\ UNCHANGED <<ws, isConnected, eventHandlers, socks, clientOpen, clientOut,
                   lastUp, uncaught, isConfigured, lateSends>>
    /\ UNCHANGED <<rtcVars, connB, browserVars>>

\* a triggerWorkflow that lets the error of axios.post through: the catch of
\* the 'message' listener answers
N8nDone_Rethrows(outcome) ==
    /\ ~uncaught
    /\ pending = <<>>
    /\ n8nInFlight > 0
    /\ n8nInFlight' = n8nInFlight - 1
    /\ clientOut' = IF ~clientOpen THEN clientOut
                    ELSE IF outcome = "success"
                         THEN Append(clientOut, Msg("n8n_response", triggerWorkflow(outcome)))
                         ELSE Append(clientOut, Msg("error", "Invalid message format"))
    /\ lateSends' = IF clientOpen THEN lateSends ELSE lateSends + 1
    /\ UNCHANGED <<ws, isConnected, eventHandlers, socks, clientOpen, pending,
                   inLog, lastUp, uncaught, isConfigured>>
    /\ UNCHANGED <<rtcVars, connB, browserVars>>

\* an axios.post settles: triggerWorkflow returns its result and the handler
\* calls ws.send with it, whatever the state of the client socket; on a
\* socket that has closed the message goes nowhere
N8nDone(outcome) ==
    /\ ~uncaught
    /\ pending = <<>>
    /\ n8nInFlight > 0
    /\ n8nInFlight' = n8nInFlight - 1
    /\ clientOut' = IF clientOpen
                    THEN Append(clientOut, Msg("n8n_response", triggerWorkflow(outcome)))
                    ELSE clientOut
    /\ lateSends' = IF clientOpen THEN lateSends ELSE lateSends + 1
    /\ UNCHANGED <<ws, isConnected, eventHandlers, socks, clientOpen, pending,
                   inLog, lastUp, uncaught, isConfigured>>
    /\ UNCHANGED <<rtcVars, connB, browserVars>>

\* the reply a resumed handler sends
ReplyMsg(k) ==
    IF k = "n8n_response" THEN Msg(k, NotConfigured) ELSE Msg(k, "")

\* the handler resumes after its await and sends the reply
Reply ==
    /\ ~uncaught
    /\ pending # <<>>
    /\ SendClient(ReplyMsg(Head(pending)))
    /\ pending' = Tail(pending)
    /\ UNCHANGED <<ws, isConnected, eventHandlers, socks, clientOpen, inLog, lastUp, uncaught>>
    /\ UNCHANGED rtcVars
    /\ UNCHANGED outerVars

\* 'open' of upstream socket i
UpstreamOpen(i) ==
    /\ ~uncaught
    /\ pending = <<>>
    /\ socks[i].readyState = "CONNECTING"
    /\ LET opened == [Svc EXCEPT !.socks[i].readyState = "OPEN", !.isConnected = TRUE]
       IN SetSvc(initializeSession(opened))
    /\ UNCHANGED <<eventHandlers, clientOpen, clientOut, pending, inLog, lastUp, uncaught>>
    /\ UNCHANGED rtcVars
    /\ UNCHANGED outerVars

\* 'error' of upstream socket i
UpstreamError(i) ==
    /\ ~uncaught
    /\ pending = <<>>
    /\ Live(socks[i])
    /\ socks' = [socks EXCEPT ![i].readyState = "CLOSING"]
    /\ isConnected' = FALSE
    /\ UNCHANGED <<ws, eventHandlers, clientOpen, clientOut, pending, inLog, lastUp, uncaught>>
    /\ UNCHANGED rtcVars
    /\ UNCHANGED outerVars

\* a 'close' listener that opens the connection again
UpstreamClose_Reconnects(i) ==
    /\ ~uncaught
    /\ pending = <<>>
    /\ socks[i].readyState \in {"OPEN", "CLOSING"}
    /\ socks' = Append([socks EXCEPT ![i].readyState = "CLOSED"], NewSocket)
    /\ ws' = Len(socks) + 1
    /\ isConnected' = FALSE
    /\ UNCHANGED <<eventHandlers, clientOpen, clientOut, pending, inLog, lastUp, uncaught>>
    /\ UNCHANGED rtcVars
    /\ UNCHANGED outerVars

\* 'close' of upstream socket i
UpstreamClose(i) ==
    /\ ~uncaught
    /\ pending = <<>>
    /\ socks[i].readyState \in {"OPEN", "CLOSING"}
    /\ socks' = [socks EXCEPT ![i].readyState = "CLOSED"]
    /\ isConnected' = FALSE
    /\ UNCHANGED <<ws, eventHandlers, clientOpen, clientOut, pending, inLog, lastUp, uncaught>>
    /\ UNCHANGED rtcVars
    /\ UNCHANGED outerVars

\* a listener that ends the session when the upstream reports an error
UpstreamMessage_ErrorCloses(i, message) ==
    /\ ~uncaught
    /\ pending = <<>>
    /\ socks[i].readyState = "OPEN"
    /\ lastUp' = message
    /\ clientOut' = clientOut \o emit(eventHandlers, handleOpenAIMessage(message))
    /\ IF message.type = "error"
       THEN SetSvc(endSession(Svc))
       ELSE UNCHANGED <<ws, isConnected, socks>>
    /\ UNCHANGED <<eventHandlers, clientOpen, pending, inLog, uncaught>>
    /\ UNCHANGED rtcVars
    /\ UNCHANGED outerVars

\* 'message' of upstream socket i: the listener has no try/catch, so what
\* JSON.parse or handleOpenAIMessage throws leaves it uncaught
UpstreamMessage(i, message) ==
    /\ ~uncaught
    /\ pending = <<>>
    /\ socks[i].readyState = "OPEN"
    /\ lastUp' = message
    /\ IF Throws(message)
       THEN /\ uncaught' = TRUE
            /\ UNCHANGED clientOut
       ELSE /\ clientOut' = clientOut \o emit(eventHandlers, handleOpenAIMessage(message))
            /\ UNCHANGED uncaught
    /\ UNCHANGED <<ws, isConnected, eventHandlers, socks, clientOpen, pending, inLog>>
    /\ UNCHANGED rtcVars
    /\ UNCHANGED outerVars

(***************************************************************************)
(* RTCPeerConnection (W3C WebRTC), as WebRTCSignaling uses it.  Calls are  *)
(* queued on the connection's operations chain and settle one at a time,   *)
(* in the order they were made.                                            *)
(***************************************************************************)
Desc(t, s) == [type |-> t, sdp |-> s]
NullDesc   == Desc("null", "")

OfferSdps  == {"o1", "o2", "bad"}
AnswerSdps == {"a1", "bad"}
\* "bad": a candidate addIceCandidate rejects whatever the state
Candidates == {"c1", "bad"}

NoPc == [signalingState |-> "none", remoteDescription |-> NullDesc,
         localDescription |-> NullDesc, closeCalls |-> 0,
         iceAdded |-> <<>>, iceRejected |-> <<>>]

\* new RTCPeerConnection(config)
NewPc == [NoPc EXCEPT !.signalingState = "stable"]

\* setRemoteDescription resolves; an offer met in have-local-offer is
\* accepted by builds that roll the local offer back, rejected by the others
SetRemoteOk(p, d, rollback) ==
    /\ d.sdp # "bad"
    /\ IF d.type = "offer"
       THEN \/ p.signalingState \in {"stable", "have-remote-offer"}
            \/ p.signalingState = "have-local-offer" /\ rollback
       ELSE p.signalingState = "have-local-offer"

setRemoteDescription(p, d) ==
    [p EXCEPT !.remoteDescription = d,
              !.localDescription =
                  IF d.type = "offer" /\ p.signalingState = "have-local-offer"
                  THEN NullDesc ELSE @,
              !.signalingState =
                  IF d.type = "offer" THEN "have-remote-offer" ELSE "stable"]

CreateAnswerOk(p) == p.signalingState = "have-remote-offer"

\* the answer createAnswer resolves with: the answer to the current remote offer
createAnswer(p) == Desc("answer", p.remoteDescription.sdp)

LocalOffer == Desc("offer", "local")

SetLocalOk(p, d) ==
    IF d.type = "answer"
    THEN p.signalingState = "have-remote-offer"
    ELSE p.signalingState \in {"stable", "have-local-offer"}

setLocalDescription(p, d) ==
    [p EXCEPT !.localDescription = d,
              !.signalingState =
                  IF d.type = "answer" THEN "stable" ELSE "have-local-offer"]

\* addIceCandidate rejects (InvalidStateError) while remoteDescription is
\* null, and rejects a candidate it cannot use
AddIceOk(p, c) == p.remoteDescription # NullDesc /\ c # "bad"

addIceCandidate(p, c) ==
    IF AddIceOk(p, c)
    THEN [p EXCEPT !.iceAdded = Append(@, c)]
    ELSE [p EXCEPT !.iceRejected = Append(@, c)]

\* close()
pcClose(p) == [p EXCEPT !.signalingState = "closed", !.closeCalls = @ + 1]

\* a call on the chain: the operation, its argument and the handler awaiting it
Op(o, a, k) == [op |-> o, arg |-> a, k |-> k]

(***************************************************************************)
(* WebRTCSignaling.                                                        *)
(***************************************************************************)
OfferFailed  == Msg("error", "Failed to handle WebRTC offer")
AnswerFailed == Msg("error", "Failed to handle WebRTC answer")
CreateFailed == Msg("error", "Failed to create WebRTC offer")

\* sendToClient: sends only while the client socket is open
sendToClient(out, open, m) == IF open THEN Append(out, m) ELSE out

\* the calls the forEach of createPeerConnection makes for the stored candidates
StoredCalls(stored) == [i \in 1..Len(stored) |-> Op("addIceCandidate", stored[i], "stored")]

\* createPeerConnection, as a function of the signaling state
\* r = [peerConnection, iceCandidates, isInitialized, pc, opChain]
Rtc == [peerConnection |-> peerConnection, iceCandidates |-> iceCandidates,
        isInitialized |-> isInitialized, pc |-> pc, opChain |-> opChain]

createPeerConnection(r) ==
    [r EXCEPT !.peerConnection = 1,
              !.pc = NewPc,
              !.opChain = StoredCalls(r.iceCandidates),
              !.iceCandidates = <<>>,
              !.isInitialized = TRUE]

EnsurePeerConnection(r) ==
    IF r.peerConnection = 0 THEN createPeerConnection(r) ELSE r

\* handleOffer up to its first await
handleOffer(r, offer) ==
    LET r1 == EnsurePeerConnection(r)
    IN [r1 EXCEPT !.opChain = Append(@, Op("setRemoteDescription", offer, "offer"))]

\* handleIceCandidate up to its await
handleIceCandidate(r, candidate) ==
    IF r.peerConnection = 0
    THEN [r EXCEPT !.iceCandidates = Append(@, candidate)]
    ELSE IF r.pc.remoteDescription # NullDesc
         THEN [r EXCEPT !.opChain = Append(@, Op("addIceCandidate", candidate, "ice"))]
         ELSE [r EXCEPT !.iceCandidates = Append(@, candidate)]

\* createOffer up to its first await
createOffer(r) ==
    LET r1 == EnsurePeerConnection(r)
    IN [r1 EXCEPT !.opChain = Append(@, Op("createOffer", NullDesc, "createOffer"))]

\* cleanup that closes the peer connection and keeps its handle
cleanup_KeepsHandle(r) ==
    [r EXCEPT !.pc = IF r.peerConnection # 0 THEN pcClose(@) ELSE @,
              !.opChain = IF r.peerConnection # 0 THEN <<>> ELSE @,
              !.iceCandidates = <<>>,
              !.isInitialized = FALSE]

\* cleanup: a closed connection settles none of the calls still on its chain
cleanup(r) ==
    [r EXCEPT !.pc = IF r.peerConnection # 0 THEN pcClose(@) ELSE @,
              !.opChain = IF r.peerConnection # 0 THEN <<>> ELSE @,
              !.peerConnection = 0,
              !.iceCandidates = <<>>,
              !.isInitialized = FALSE]

SetRtc(r) ==
    /\ peerConnection' = r.peerConnection
    /\ iceCandidates' = r.iceCandidates
    /\ isInitialized' = r.isInitialized
    /\ pc' = r.pc
    /\ opChain' = r.opChain

\* what a signaling call finds when it is made
Call(t, d) ==
    [type |-> t, data |-> d,
     sig |-> pc.signalingState,
     idle |-> opChain = <<>>,
     after |-> Len(inLog)]

\* the call on the head of the chain resolves (TRUE) or rejects (FALSE)
Resolved(p, op, rollback) ==
    CASE op.op = "setRemoteDescription" -> SetRemoteOk(p, op.arg, rollback)
      [] op.op = "createAnswer"         -> CreateAnswerOk(p)
      [] op.op = "createOffer"          -> TRUE
      [] op.op = "setLocalDescription"  -> SetLocalOk(p, op.arg)
      [] op.op = "addIceCandidate"      -> AddIceOk(p, op.arg)

\* its effect on the connection
Apply(p, op, rollback) ==
    CASE op.op = "setRemoteDescription" ->
             IF SetRemoteOk(p, op.arg, rollback) THEN setRemoteDescription(p, op.arg) ELSE p
      [] op.op = "setLocalDescription" ->
             IF SetLocalOk(p, op.arg) THEN setLocalDescription(p, op.arg) ELSE p
      [] op.op = "addIceCandidate" -> addIceCandidate(p, op.arg)
      [] OTHER -> p

Then(next, send) == [next |-> next, send |-> send]

\* handleOffer that never sends the answer it has set
offerResume_NoAnswer(op, ok, p) ==
    IF ~ok THEN Then(<<>>, <<OfferFailed>>)
    ELSE CASE op.op = "setRemoteDescription" ->
                  Then(<<Op("createAnswer", NullDesc, "offer")>>, <<>>)
           [] op.op = "createAnswer" ->
                  Then(<<Op("setLocalDescription", createAnswer(p), "offer")>>, <<>>)
           [] op.op = "setLocalDescription" ->
                  Then(<<>>, <<>>)

\* handleOffer after an await: its next call, or what it sends
offerResume(op, ok, p) ==
    IF ~ok THEN Then(<<>>, <<OfferFailed>>)
    ELSE CASE op.op = "setRemoteDescription" ->
                  Then(<<Op("createAnswer", NullDesc, "offer")>>, <<>>)
           [] op.op = "createAnswer" ->
                  Then(<<Op("setLocalDescription", createAnswer(p), "offer")>>, <<>>)
           [] op.op = "setLocalDescription" ->
                  Then(<<>>, <<Msg("webrtc_answer", op.arg.sdp)>>)

\* handleAnswer whose catch block only logs
answerResume_Silent(op, ok, p) == Then(<<>>, <<>>)

\* handleAnswer after its await
answerResume(op, ok, p) ==
    IF ~ok THEN Then(<<>>, <<AnswerFailed>>) ELSE Then(<<>>, <<>>)

\* createOffer after an await
createOfferResume(op, ok, p) ==
    IF ~ok THEN Then(<<>>, <<CreateFailed>>)
    ELSE CASE op.op = "createOffer" ->
                  Then(<<Op("setLocalDescription", LocalOffer, "createOffer")>>, <<>>)
           [] op.op = "setLocalDescription" ->
                  Then(<<>>, <<Msg("webrtc_offer", op.arg.sdp)>>)

\* a catch block that reports the rejected candidate to the client
iceResume_SendsError(op, ok, p) ==
    IF ~ok THEN Then(<<>>, <<Msg("error", "Failed to handle ICE candidate")>>)
    ELSE Then(<<>>, <<>>)

\* handleIceCandidate and the forEach of createPeerConnection after their
\* await: a rejection is logged, nothing is sent
iceResume(op, ok, p) == Then(<<>>, <<>>)

Resume(op, ok, p) ==
    CASE op.k = "offer"       -> offerResume(op, ok, p)
      [] op.k = "answer"      -> answerResume(op, ok, p)
      [] op.k = "createOffer" -> createOfferResume(op, ok, p)
      [] OTHER                -> iceResume(op, ok, p)

(***************************************************************************)
(* Actions of SpecRtc.                                                     *)
(***************************************************************************)
\* signaling calls made in one run
MaxCalls == 3

\* 'message' on the client socket, type webrtc_offer, up to the first await
ClientOffer(sdp) ==
    /\ clientOpen
    /\ Received < MaxCalls
    /\ SetRtc(handleOffer(Rtc, Desc("offer", sdp)))
    /\ rtcLog' = Append(rtcLog, Call("webrtc_offer", sdp))
    /\ UNCHANGED cliVars
    /\ UNCHANGED oaiVars
    /\ UNCHANGED outerVars

\* 'message' on the client socket, type webrtc_answer, up to the await
ClientAnswer(sdp) ==
    /\ clientOpen
    /\ Received < MaxCalls
    /\ IF peerConnection = 0
       THEN /\ clientOut' = sendToClient(clientOut, clientOpen, AnswerFailed)
            /\ UNCHANGED <<peerConnection, iceCandidates, isInitialized, pc, opChain>>
       ELSE /\ opChain' = Append(opChain,
                              Op("setRemoteDescription", Desc("answer", sdp), "answer"))
            /\ UNCHANGED <<peerConnection, iceCandidates, isInitialized, pc, clientOut>>
    /\ rtcLog' = Append(rtcLog, Call("webrtc_answer", sdp))
    /\ UNCHANGED clientOpen
    /\ UNCHANGED oaiVars
    /\ UNCHANGED outerVars

\* 'message' on the client socket, type webrtc_ice_candidate, up to the await
ClientIce(c) ==
    /\ clientOpen
    /\ Received < MaxCalls
    /\ SetRtc(handleIceCandidate(Rtc, c))
    /\ rtcLog' = Append(rtcLog, Call("webrtc_ice_candidate", c))
    /\ UNCHANGED cliVars
    /\ UNCHANGED oaiVars
    /\ UNCHANGED outerVars

\* createOffer(): the server-side offer (a method of the class; the
\* dispatcher of server.js has no message that reaches it)
ServerOffer ==
    /\ clientOpen
    /\ Received < MaxCalls
    /\ SetRtc(createOffer(Rtc))
    /\ rtcLog' = Append(rtcLog, Call("createOffer", ""))
    /\ UNCHANGED cliVars
    /\ UNCHANGED oaiVars
    /\ UNCHANGED outerVars

\* the call at the head of the chain settles and its handler resumes
PcStep(rollback) ==
    /\ pending = <<>>
    /\ opChain # <<>>
    /\ LET op  == Head(opChain)
           ok  == Resolved(pc, op, rollback)
           res == Resume(op, ok, pc)
       IN /\ pc' = Apply(pc, op, rollback)
          /\ opChain' = Tail(opChain) \o res.next
          /\ clientOut' = IF res.send = <<>>
                          THEN clientOut
                          ELSE sendToClient(clientOut, clientOpen, res.send[1])
    /\ UNCHANGED <<peerConnection, iceCandidates, isInitialized, rtcLog, clientOpen>>
    /\ UNCHANGED oaiVars
    /\ UNCHANGED outerVars

\* 'close' of the client socket: openaiService.cleanup() and
\* webrtcSignaling.cleanup()
ClientClose ==
    /\ ~uncaught
    /\ pending = <<>>
    /\ clientOpen
    /\ clientOpen' = FALSE
    /\ SetSvc(endSession(Svc))
    /\ eventHandlers' = NoHandlers
    /\ SetRtc(cleanup(Rtc))
    /\ UNCHANGED <<clientOut, pending, inLog, lastUp, uncaught, rtcLog>>
    /\ UNCHANGED outerVars

(***************************************************************************)
(* A second connection: the 'connection' handler gives it services of its  *)
(* own.  Its state is one record holding the fields of both services, its  *)
(* socket (open, out) and its suspended handlers.                          *)
(***************************************************************************)
NewConn ==
    [ws |-> 0, isConnected |-> FALSE, socks |-> <<>>,
     peerConnection |-> 0, iceCandidates |-> <<>>, isInitialized |-> FALSE,
     pc |-> NoPc, opChain |-> <<>>,
     open |-> TRUE, out |-> <<Msg("connected", "")>>, pending |-> <<>>,
     received |-> 0]

BGuard ==
    /\ ~uncaught
    /\ connB.open
    /\ Received < MaxMsgs

\* the state of the first connection
connA == <<ws, isConnected, eventHandlers, socks, pending, inLog, lastUp,
           cliVars, rtcVars, n8nVars>>

\* a server that keeps one OpenAIRealtimeService for all its connections
BStart_SharedService ==
    /\ BGuard
    /\ SetSvc(startSession(Svc))
    /\ connB' = [connB EXCEPT !.pending = Append(@, "session_started"),
                              !.received = @ + 1]
    /\ UNCHANGED <<eventHandlers, pending, inLog, lastUp, uncaught,
                   cliVars, rtcVars, n8nVars, browserVars>>

\* start_session on the second connection
BStart ==
    /\ BGuard
    /\ connB' = [startSession(connB) EXCEPT
                     !.pending = Append(@, "session_started"),
                     !.received = @ + 1]
    /\ UNCHANGED <<connA, uncaught, browserVars>>

\* audio_data on the second connection
BAudio(p) ==
    /\ BGuard
    /\ connB' = [sendAudioData(connB, p) EXCEPT !.received = @ + 1]
    /\ UNCHANGED <<connA, uncaught, browserVars>>

\* webrtc_ice_candidate on the second connection
BIce(c) ==
    /\ BGuard
    /\ connB' = [handleIceCandidate(connB, c) EXCEPT !.received = @ + 1]
    /\ UNCHANGED <<connA, uncaught, browserVars>>

\* webrtc_offer on the second connection
BOffer(sdp) ==
    /\ BGuard
    /\ connB' = [handleOffer(connB, Desc("offer", sdp)) EXCEPT !.received = @ + 1]
    /\ UNCHANGED <<connA, uncaught, browserVars>>

\* a handler of the second connection resumes and replies
BReply ==
    /\ ~uncaught
    /\ connB.pending # <<>>
    /\ connB' = [connB EXCEPT !.out = Append(@, ReplyMsg(Head(connB.pending))),
                              !.pending = Tail(@)]
    /\ UNCHANGED <<connA, uncaught, browserVars>>

\* 'open' of upstream socket i of the second connection
BUpstreamOpen(i) ==
    /\ ~uncaught
    /\ connB.pending = <<>>
    /\ connB.socks[i].readyState = "CONNECTING"
    /\ connB' = initializeSession([connB EXCEPT !.socks[i].readyState = "OPEN",
                                                !.isConnected = TRUE])
    /\ UNCHANGED <<connA, uncaught, browserVars>>

\* a call on the peer connection of the second connection settles
BPcStep(rollback) ==
    /\ ~uncaught
    /\ connB.pending = <<>>
    /\ connB.opChain # <<>>
    /\ LET op  == Head(connB.opChain)
           ok  == Resolved(connB.pc, op, rollback)
           res == Resume(op, ok, connB.pc)
       IN connB' = [connB EXCEPT
                        !.pc = Apply(@, op, rollback),
                        !.opChain = Tail(@) \o res.next,
                        !.out = IF res.send = <<>> THEN @
                                ELSE sendToClient(@, connB.open, res.send[1])]
    /\ UNCHANGED <<connA, uncaught, browserVars>>

\* 'close' of the socket of the second connection
BClose ==
    /\ ~uncaught
    /\ connB.pending = <<>>
    /\ connB.open
    /\ connB' = [cleanup(endSession(connB)) EXCEPT !.open = FALSE]
    /\ UNCHANGED <<connA, uncaught, browserVars>>

(***************************************************************************)
(* WebSocketClient of the browser (public/js/audio-processor.js), as       *)
(* functions of the client c = [ws, isConnected, reconnectAttempts,        *)
(* heartbeatInterval, intervals, sockets, timers, delays].                 *)
(***************************************************************************)
\* WebSockets the client creates in one run
MaxSockets == 6

\* calls of reconnect() and disconnect() in one run
MaxApiCalls == 2

maxReconnectAttempts == 5
reconnectDelay == 1000

\* after the constructor: no socket; intervals counts the setInterval timers
\* running, timers the reconnect timeouts pending, delays logs each delay
\* scheduled with the value of reconnectAttempts it was computed for, calls
\* counts the calls of reconnect() and disconnect(), disconnected tells that
\* the last of them was disconnect()
NewClient ==
    [ws |-> 0, isConnected |-> FALSE, reconnectAttempts |-> 0,
     heartbeatInterval |-> FALSE, intervals |-> 0,
     sockets |-> <<>>, timers |-> 0, delays |-> <<>>, calls |-> 0,
     disconnected |-> FALSE]

\* new WebSocket(wsUrl); askedNormal: close(1000, ...) was called on it
NewBrowserSocket == [readyState |-> "CONNECTING", opened |-> FALSE,
                     askedNormal |-> FALSE]

\* a socket after its close event: no further event comes from it
ClosedSocket == [readyState |-> "CLOSED", opened |-> FALSE,
                 askedNormal |-> FALSE]

\* WebSocket.close() of the browser
browserClose(sock, normal) ==
    IF sock.readyState \in {"CONNECTING", "OPEN"}
    THEN [sock EXCEPT !.readyState = "CLOSING", !.askedNormal = normal]
    ELSE sock

\* the close event may carry code 1000: the socket had opened, and either the
\* server closed it or close(1000, ...) was called on it
CanCloseNormally(sock) ==
    sock.opened /\ (sock.readyState = "OPEN" \/ sock.askedNormal)

connect(c) ==
    [c EXCEPT !.sockets = Append(@, NewBrowserSocket), !.ws = Len(c.sockets) + 1]

startHeartbeat(c) ==
    [c EXCEPT !.heartbeatInterval = TRUE, !.intervals = @ + 1]

stopHeartbeat(c) ==
    IF c.heartbeatInterval
    THEN [c EXCEPT !.heartbeatInterval = FALSE, !.intervals = @ - 1]
    ELSE c

\* ws.onopen
onopen(c) ==
    startHeartbeat([c EXCEPT !.isConnected = TRUE, !.reconnectAttempts = 0])

\* scheduleReconnect whose exponent is the incremented count
scheduleReconnect_LateExponent(c) ==
    LET n == c.reconnectAttempts + 1
    IN [c EXCEPT !.reconnectAttempts = n,
                 !.timers = @ + 1,
                 !.delays = Append(@, [attempt |-> c.reconnectAttempts,
                                       delay |-> reconnectDelay * 2 ^ n])]

scheduleReconnect(c) ==
    LET n == c.reconnectAttempts + 1
    IN [c EXCEPT !.reconnectAttempts = n,
                 !.timers = @ + 1,
                 !.delays = Append(@, [attempt |-> c.reconnectAttempts,
                                       delay |-> reconnectDelay * 2 ^ (n - 1)])]

\* ws.onclose; normal: event.code === 1000
onclose(c, normal) ==
    LET c1 == stopHeartbeat([c EXCEPT !.isConnected = FALSE])
    IN IF ~normal /\ c1.reconnectAttempts < maxReconnectAttempts
       THEN scheduleReconnect(c1)
       ELSE c1

\* reconnect(): manual
reconnect(c) ==
    LET c1 == IF c.ws # 0
              THEN [c EXCEPT !.sockets[c.ws] = browserClose(@, FALSE)]
              ELSE c
    IN connect([c1 EXCEPT !.reconnectAttempts = 0])

\* disconnect(): manual
disconnect(c) ==
    LET c1 == stopHeartbeat(c)
        c2 == IF c1.ws # 0
              THEN [c1 EXCEPT !.sockets[c1.ws] = browserClose(@, TRUE), !.ws = 0]
              ELSE c1
    IN [c2 EXCEPT !.isConnected = FALSE]

(***************************************************************************)
(* VoiceAgentApp: the conversation and the recorder of AudioProcessor.     *)
(***************************************************************************)
\* session_ended replies the server owes the client at one time
MaxEnded == 2

\* after the constructor; startedOn is the socket the start_session of the
\* conversation went out on (0: none did), ended counts the end_session
\* messages the server has still to answer with session_ended
NewApp == [isInitialized |-> FALSE, isSessionActive |-> FALSE,
           isRecording |-> FALSE, startedOn |-> 0, ended |-> 0]

\* messages and calls WebRTCClient handles in one run
MaxSignals == 4

\* candidates the server sends: all of them usable
ServerCandidates == {"c1", "c2"}

\* after the constructor of WebRTCClient; cands logs the candidates received,
\* calls counts the messages and calls handled
NewWebRTCClient == [peerConnection |-> 0, iceCandidates |-> <<>>, pc |-> NoPc,
                    opChain |-> <<>>, cands |-> <<>>, calls |-> 0]

\* initialize(): createPeerConnection and addTrack
initialize(w) == [w EXCEPT !.peerConnection = 1, !.pc = NewPc, !.opChain = <<>>]

\* the handlers of WebRTCClient up to their first await; without a peer
\* connection handleOffer, handleAnswer and createOffer throw into their
\* own catch
clientHandleOffer(w, offer) ==
    IF w.peerConnection = 0 THEN w
    ELSE [w EXCEPT !.opChain = Append(@, Op("setRemoteDescription", offer, "offer"))]

clientHandleAnswer(w, answer) ==
    IF w.peerConnection = 0 THEN w
    ELSE [w EXCEPT !.opChain = Append(@, Op("setRemoteDescription", answer, "answer"))]

clientCreateOffer(w) ==
    IF w.peerConnection = 0 THEN w
    ELSE [w EXCEPT !.opChain = Append(@, Op("createOffer", NullDesc, "createOffer"))]

clientHandleIceCandidate(w, candidate) ==
    IF w.peerConnection = 0
    THEN [w EXCEPT !.iceCandidates = Append(@, candidate)]
    ELSE IF w.pc.remoteDescription # NullDesc
         THEN [w EXCEPT !.opChain = Append(@, Op("addIceCandidate", candidate, "ice"))]
         ELSE [w EXCEPT !.iceCandidates = Append(@, candidate)]

\* processStoredIceCandidates: the stored candidates go to addIceCandidate
\* one after the other and the list is emptied
processStoredIceCandidates(w) ==
    [w EXCEPT !.opChain = @ \o StoredCalls(w.iceCandidates),
              !.iceCandidates = <<>>]

\* the call at the head of the chain settles and its handler resumes with
\* its next call (the awaits of handleOffer, handleAnswer and createOffer are
\* those of WebRTCSignaling); no handler calls processStoredIceCandidates
clientSettle(w, rollback) ==
    LET op  == Head(w.opChain)
        ok  == Resolved(w.pc, op, rollback)
        res == Resume(op, ok, w.pc)
    IN [w EXCEPT !.pc = Apply(w.pc, op, rollback),
                 !.opChain = Tail(w.opChain) \o res.next]

\* WebSocketClient.send returns true: the message went out
send(c) == c.isConnected /\ c.ws # 0 /\ c.sockets[c.ws].readyState = "OPEN"

\* AudioProcessor.startRecording; the recorder exists once the app is
\* initialized
startRecording(a) == [a EXCEPT !.isRecording = TRUE]

stopRecording(a) == [a EXCEPT !.isRecording = FALSE]

\* the await on webrtc.initialize is on a promise already resolved: the
\* handler runs to its end before any other event
startConversation(a, c) ==
    IF ~a.isInitialized \/ a.isSessionActive
    THEN a
    ELSE [startRecording(a) EXCEPT !.isSessionActive = TRUE,
                                   !.startedOn = IF send(c) THEN c.ws ELSE 0]

stopConversation(a, c) ==
    IF ~a.isSessionActive
    THEN a
    ELSE [stopRecording(a) EXCEPT !.isSessionActive = FALSE,
                                  !.startedOn = 0,
                                  !.ended = IF send(c) THEN @ + 1 ELSE @]

handleSessionEnded(a) == [a EXCEPT !.isSessionActive = FALSE]

handleWebSocketDisconnect(a, c) ==
    IF a.isSessionActive THEN stopConversation(a, c) ELSE a

(***************************************************************************)
(* Actions of SpecBrowser.                                                 *)
(***************************************************************************)
\* VoiceAgentApp.init: this.ws.connect(), once
WscConnect ==
    /\ wsClient.sockets = <<>>
    /\ wsClient' = connect(wsClient)
    /\ UNCHANGED <<serverVars, app, webrtc>>

\* the open event of socket i
WscOpen(i) ==
    /\ wsClient.sockets[i].readyState = "CONNECTING"
    /\ wsClient' = onopen([wsClient EXCEPT !.sockets[i].readyState = "OPEN",
                                           !.sockets[i].opened = TRUE])
    /\ UNCHANGED <<serverVars, app, webrtc>>

\* the close event of socket i (after the error event, if the connection
\* failed), with code 1000 or another
WscClose(i, normal) ==
    /\ wsClient.sockets[i].readyState # "CLOSED"
    /\ normal => CanCloseNormally(wsClient.sockets[i])
    /\ wsClient' = onclose([wsClient EXCEPT !.sockets[i] = ClosedSocket], normal)
    /\ app' = handleWebSocketDisconnect(
                  [app EXCEPT !.ended = IF i = wsClient.ws THEN 0 ELSE @],
                  [wsClient EXCEPT !.sockets[i] = ClosedSocket,
                                   !.isConnected = FALSE])
    /\ UNCHANGED <<serverVars, webrtc>>

\* a reconnect timeout fires
WscTimer ==
    /\ wsClient.timers > 0
    /\ Len(wsClient.sockets) < MaxSockets
    /\ LET c1 == [wsClient EXCEPT !.timers = @ - 1]
       IN wsClient' = IF ~c1.isConnected THEN connect(c1) ELSE c1
    /\ UNCHANGED <<serverVars, app, webrtc>>

\* reconnect() is called
WscReconnect ==
    /\ Len(wsClient.sockets) < MaxSockets
    /\ wsClient.calls < MaxApiCalls
    /\ wsClient' = [reconnect(wsClient) EXCEPT !.calls = @ + 1,
                                              !.disconnected = FALSE]
    /\ UNCHANGED <<serverVars, app, webrtc>>

\* disconnect() is called
WscDisconnect ==
    /\ wsClient.calls < MaxApiCalls
    /\ wsClient' = [disconnect(wsClient) EXCEPT !.calls = @ + 1,
                                               !.disconnected = TRUE]
    /\ UNCHANGED <<serverVars, app, webrtc>>

(***************************************************************************)
(* Actions of SpecApp.                                                     *)
(***************************************************************************)
\* initialize() has run to its end: the microphone was granted,
\* ws.connect() was called and the status request has settled
AppReady ==
    /\ ~app.isInitialized
    /\ wsClient.sockets # <<>>
    /\ app' = [app EXCEPT !.isInitialized = TRUE]
    /\ UNCHANGED <<serverVars, wsClient, webrtc>>

\* the user clicks Start Conversation
AppStart ==
    /\ app.isInitialized
    /\ app' = startConversation(app, wsClient)
    /\ UNCHANGED <<serverVars, wsClient, webrtc>>

\* the user clicks Stop Conversation
AppStop ==
    /\ app.ended < MaxEnded
    /\ app' = stopConversation(app, wsClient)
    /\ UNCHANGED <<serverVars, wsClient, webrtc>>

\* a session_ended reply of the server arrives on the open socket
AppSessionEnded ==
    /\ app.ended > 0
    /\ wsClient.ws # 0
    /\ wsClient.sockets[wsClient.ws].readyState = "OPEN"
    /\ app' = handleSessionEnded([app EXCEPT !.ended = @ - 1])
    /\ UNCHANGED <<serverVars, wsClient, webrtc>>

(***************************************************************************)
(* Actions of SpecWebrtc.                                                  *)
(***************************************************************************)
\* startConversation calls webrtc.initialize()
WebrtcInitialize ==
    /\ webrtc.calls < MaxSignals
    /\ webrtc.peerConnection = 0
    /\ webrtc' = [initialize(webrtc) EXCEPT !.calls = @ + 1]
    /\ UNCHANGED <<serverVars, wsClient, app>>

\* a webrtc_offer message arrives
WebrtcOffer(sdp) ==
    /\ webrtc.calls < MaxSignals
    /\ webrtc' = [clientHandleOffer(webrtc, Desc("offer", sdp)) EXCEPT !.calls = @ + 1]
    /\ UNCHANGED <<serverVars, wsClient, app>>

\* a webrtc_answer message arrives
WebrtcAnswer(sdp) ==
    /\ webrtc.calls < MaxSignals
    /\ webrtc' = [clientHandleAnswer(webrtc, Desc("answer", sdp)) EXCEPT !.calls = @ + 1]
    /\ UNCHANGED <<serverVars, wsClient, app>>

\* a webrtc_ice_candidate message arrives
WebrtcIce(c) ==
    /\ webrtc.calls < MaxSignals
    /\ webrtc' = [clientHandleIceCandidate(webrtc, c) EXCEPT !.calls = @ + 1,
                                                             !.cands = Append(@, c)]
    /\ UNCHANGED <<serverVars, wsClient, app>>

\* createOffer() is called
WebrtcCreateOffer ==
    /\ webrtc.calls < MaxSignals
    /\ webrtc.peerConnection # 0
    /\ webrtc' = [clientCreateOffer(webrtc) EXCEPT !.calls = @ + 1]
    /\ UNCHANGED <<serverVars, wsClient, app>>

\* a call made on the browser's peer connection settles
WebrtcStep(rollback) ==
    /\ webrtc.opChain # <<>>
    /\ webrtc' = clientSettle(webrtc, rollback)
    /\ UNCHANGED <<serverVars, wsClient, app>>

(***************************************************************************)
(* Specifications.                                                         *)
(***************************************************************************)
InitConn ==
    /\ ws = 0
    /\ isConnected = FALSE
    /\ eventHandlers = NoHandlers
    /\ socks = <<>>
    /\ clientOpen = TRUE
    /\ clientOut = <<Msg("connected", "")>>
    /\ pending = <<>>
    /\ inLog = <<>>
    /\ lastUp = Msg("none", "")
    /\ uncaught = FALSE
    /\ peerConnection = 0
    /\ iceCandidates = <<>>
    /\ isInitialized = FALSE
    /\ pc = NoPc
    /\ opChain = <<>>
    /\ rtcLog = <<>>
    /\ n8nInFlight = 0
    /\ lateSends = 0
    /\ connB = NewConn
    /\ wsClient = NewClient
    /\ app = NewApp
    /\ webrtc = NewWebRTCClient

\* N8N_WEBHOOK_URL is not set unless the deployment sets it
Init == InitConn /\ isConfigured = FALSE

\* either deployment
InitN8n == InitConn /\ isConfigured \in BOOLEAN

\* the upstream session: start_session, end_session, audio_data and the
\* events of the upstream sockets
Next ==
    \/ ClientStart
    \/ ClientEnd
    \/ \E p \in AudioChunks : ClientAudio(p)
    \/ Reply
    \/ \E i \in DOMAIN socks : UpstreamOpen(i)
    \/ \E i \in DOMAIN socks : UpstreamError(i)
    \/ \E i \in DOMAIN socks : UpstreamClose(i)
    \/ \E i \in DOMAIN socks, m \in UpFrames : UpstreamMessage(i, m)
    \/ ClientClose

Spec == Init /\ [][Next]_vars

\* the peer negotiation: webrtc_offer, webrtc_answer, webrtc_ice_candidate,
\* createOffer and the settling of the calls made on the peer connection
NextRtc ==
    \/ \E sdp \in OfferSdps : ClientOffer(sdp)
    \/ \E sdp \in AnswerSdps : ClientAnswer(sdp)
    \/ \E c \in Candidates : ClientIce(c)
    \/ ServerOffer
    \/ \E rollback \in BOOLEAN : PcStep(rollback)
    \/ ClientClose

SpecRtc == Init /\ [][NextRtc]_vars

\* Spec with what the event loop guarantees: a handler suspended at an await
\* is resumed.  Neither the client nor the upstream service owes the server
\* an event, and the service starts no timer of its own.
FairSpec == Spec /\ WF_vars(Reply)

\* the dispatcher over both services: the messages that build up state in
\* each, the ones it answers itself, and the close of the client socket
NextSession ==
    \/ ClientStart
    \/ ClientEnd
    \/ \E t \in UnknownTypes : ClientUnknown(t)
    \/ ClientMalformed
    \/ Reply
    \/ \E i \in DOMAIN socks : UpstreamOpen(i)
    \/ \E sdp \in OfferSdps : ClientOffer(sdp)
    \/ \E c \in Candidates : ClientIce(c)
    \/ \E rollback \in BOOLEAN : PcStep(rollback)
    \/ ClientClose

SpecSession == Init /\ [][NextSession]_vars

\* the workflow webhook beside a session in use
NextN8n ==
    \/ ClientStart
    \/ ClientN8n
    \/ \E outcome \in Outcomes : N8nDone(outcome)
    \/ Reply
    \/ \E i \in DOMAIN socks : UpstreamOpen(i)
    \/ \E sdp \in OfferSdps : ClientOffer(sdp)
    \/ \E rollback \in BOOLEAN : PcStep(rollback)
    \/ ClientClose

SpecN8n == InitN8n /\ [][NextN8n]_vars

\* the events of the first connection
StepA ==
    \/ ClientStart
    \/ \E p \in AudioChunks : ClientAudio(p)
    \/ Reply
    \/ \E i \in DOMAIN socks : UpstreamOpen(i)
    \/ \E sdp \in OfferSdps : ClientOffer(sdp)
    \/ \E c \in Candidates : ClientIce(c)
    \/ \E rollback \in BOOLEAN : PcStep(rollback)
    \/ ClientClose

\* the events of the second
StepB ==
    \/ BStart
    \/ \E p \in AudioChunks : BAudio(p)
    \/ BReply
    \/ \E i \in DOMAIN connB.socks : BUpstreamOpen(i)
    \/ \E sdp \in OfferSdps : BOffer(sdp)
    \/ \E c \in Candidates : BIce(c)
    \/ \E rollback \in BOOLEAN : BPcStep(rollback)
    \/ BClose

\* two connections of one server, their events interleaved
NextTwo ==
    \/ ClientStart
    \/ \E p \in AudioChunks : ClientAudio(p)
    \/ Reply
    \/ \E i \in DOMAIN socks : UpstreamOpen(i)
    \/ \E sdp \in OfferSdps : ClientOffer(sdp)
    \/ \E c \in Candidates : ClientIce(c)
    \/ \E rollback \in BOOLEAN : PcStep(rollback)
    \/ ClientClose
    \/ BStart
    \/ \E p \in AudioChunks : BAudio(p)
    \/ BReply
    \/ \E i \in DOMAIN connB.socks : BUpstreamOpen(i)
    \/ \E sdp \in OfferSdps : BOffer(sdp)
    \/ \E c \in Candidates : BIce(c)
    \/ \E rollback \in BOOLEAN : BPcStep(rollback)
    \/ BClose

SpecTwo == Init /\ [][NextTwo]_vars

\* the WebSocketClient of the browser
NextBrowser ==
    \/ WscConnect
    \/ \E i \in DOMAIN wsClient.sockets : WscOpen(i)
    \/ \E i \in DOMAIN wsClient.sockets, normal \in BOOLEAN : WscClose(i, normal)
    \/ WscTimer
    \/ WscReconnect
    \/ WscDisconnect

SpecBrowser == Init /\ [][NextBrowser]_vars

\* the VoiceAgentApp over its WebSocketClient: the app calls connect() once
\* and never reconnect()
NextApp ==
    \/ WscConnect
    \/ \E i \in DOMAIN wsClient.sockets : WscOpen(i)
    \/ \E i \in DOMAIN wsClient.sockets, normal \in BOOLEAN : WscClose(i, normal)
    \/ WscTimer
    \/ AppReady
    \/ AppStart
    \/ AppStop
    \/ AppSessionEnded

SpecApp == Init /\ [][NextApp]_vars

\* the WebRTCClient of the browser
NextWebrtc ==
    \/ WebrtcInitialize
    \/ \E sdp \in OfferSdps : WebrtcOffer(sdp)
    \/ \E sdp \in AnswerSdps : WebrtcAnswer(sdp)
    \/ \E c \in ServerCandidates : WebrtcIce(c)
    \/ WebrtcCreateOffer
    \/ \E rollback \in BOOLEAN : WebrtcStep(rollback)

SpecWebrtc == Init /\ [][NextWebrtc]_vars

(***************************************************************************)
(* Properties of the upstream session (checked under Spec).                *)
(***************************************************************************)
LiveSockets == {i \in DOMAIN socks : Live(socks[i])}

LastIn == inLog[Len(inLog)]

\* C1: at most one upstream WebSocket created by the connection's
\* OpenAIRealtimeService is open or connecting at any time.
C1_AtMostOneLiveUpstream == Cardinality(LiveSockets) <= 1

\* the client-facing message types upstream events are relayed as
RelayTypes == {"speech_started", "speech_stopped", "audio_response",
               "text_response", "error"}

\* C2: once the handler of an upstream event of a relayed type has run, a
\* message of the matching type has been sent to the client socket.
C2_UpstreamEventRelayed ==
    handleOpenAIMessage(lastUp).type \in RelayTypes
        => \E k \in DOMAIN clientOut : clientOut[k] = handleOpenAIMessage(lastUp)

\* C3: every response.audio.delta delivered by the upstream appends exactly
\* one audio_response carrying the same payload to the client's messages, so
\* deltas d1, d2, d3 reach the client in that order, none lost or merged.
C3_AudioDeltaPassThrough ==
    [][\A i \in DOMAIN socks, d \in Deltas :
          UpstreamMessage(i, Msg("response.audio.delta", d))
              => clientOut' = Append(clientOut, Msg("audio_response", d))]_vars

\* the upstream client cannot send: not connected, no socket, or a socket
\* that is not open
NotConnected(s) ==
    ~s.isConnected \/ s.ws = 0 \/ s.socks[s.ws].readyState # "OPEN"

\* C8: an audio_data message processed while the upstream client is not
\* connected sends nothing upstream, sends no reply (so nothing was thrown
\* to the dispatcher) and leaves ws, isConnected and the sockets unchanged.
C8_AudioWhileNotConnected ==
    [][\A p \in AudioChunks :
          (ClientAudio(p) /\ NotConnected(Svc))
              => UNCHANGED <<ws, isConnected, socks, clientOut, pending>>]_vars

\* an audio_data message was processed while the upstream socket was still
\* connecting
C8_Witness ==
    /\ Len(inLog) = 2
    /\ inLog[1].type = "start_session"
    /\ inLog[2].type = "audio_data"
    /\ Len(socks) = 1
    /\ socks[1].readyState = "CONNECTING"
    /\ socks[1].sent = <<>>

\* C9: from every state endSession leaves ws = null and isConnected = false,
\* and a second call right after it changes nothing: no field, no socket
\* state and no further close() call.
C9_EndSessionIdempotent ==
    LET s1 == endSession(Svc)
    IN /\ s1.ws = 0
       /\ ~s1.isConnected
       /\ endSession(s1) = s1

\* end_session processed twice in a row on a session that had been open
C9_Witness ==
    /\ Len(inLog) = 3
    /\ inLog[1].type = "start_session"
    /\ inLog[2].type = "end_session"
    /\ inLog[3].type = "end_session"
    /\ socks[1].sent = <<SessionConfig>>
    /\ socks[1].closeCalls = 1
    /\ ws = 0
    /\ ~isConnected

\* C10: once an end_session has been processed and its session_ended sent
\* (no later message dispatched), no upstream connection of the session is
\* open or connecting.
C10_NoLiveUpstreamAfterEnd ==
    (inLog # <<>> /\ LastIn.type = "end_session" /\ pending = <<>>)
        => LiveSockets = {}

\* the only upstream socket of the session failed before its handshake
\* completed: it is closing or closed, the session never closed it, and the
\* session configuration sent on 'open' never went out
FailedBeforeOpen ==
    /\ Len(socks) = 1
    /\ ~Live(socks[1])
    /\ socks[1].closeCalls = 0
    /\ socks[1].sent = <<>>

\* C12: when the upstream socket of a start_session errors or closes before
\* it has opened, the client is sent an error for that start_session and is
\* not left with session_started alone.
C12_HandshakeFailureSurfaced ==
    (FailedBeforeOpen /\ pending = <<>>)
        => \E k \in DOMAIN clientOut : clientOut[k].type = "error"

\* a is b with some of its elements left out
RECURSIVE IsSubseq(_, _)
IsSubseq(a, b) ==
    IF a = <<>> THEN TRUE
    ELSE IF b = <<>> THEN FALSE
    ELSE IF Head(a) = Head(b) THEN IsSubseq(Tail(a), Tail(b))
    ELSE IsSubseq(a, Tail(b))

Payloads(log, t) ==
    LET sel == SelectSeq(log, LAMBDA m : m.type = t)
    IN [k \in 1..Len(sel) |-> sel[k].data]

\* the audio of the input_audio_buffer.append messages sent upstream, on the
\* first n sockets in the order the session opened them
RECURSIVE AudioSent(_)
AudioSent(n) ==
    IF n = 0 THEN <<>>
    ELSE AudioSent(n - 1) \o Payloads(socks[n].sent, "input_audio_buffer.append")

\* C16: the audio appended upstream is a subsequence of the payloads of the
\* audio_data messages received, in the same relative order and with none
\* sent twice; the other payloads were dropped.
C16_AudioOrderPreserved ==
    IsSubseq(AudioSent(Len(socks)), Payloads(inLog, "audio_data"))

\* two different chunks received on an open session went upstream in the
\* order they came
C16_Witness ==
    /\ inLog = <<Msg("start_session", ""), Msg("audio_data", "a2"),
                 Msg("audio_data", "a1")>>
    /\ Len(socks) = 1
    /\ socks[1].sent = <<SessionConfig, Msg("input_audio_buffer.append", "a2"),
                         Msg("input_audio_buffer.append", "a1")>>

\* C18: a malformed upstream message, text that is not JSON or a
\* session.created without its session object, is ignored: no exception
\* leaves the upstream message listener.
C18_MalformedUpstreamIgnored ==
    lastUp \in {Msg("not-json", ""), Msg("session.created", "")} => ~uncaught

\* C19: an upstream message with a tag the switch does not know produces no
\* internal event and no client message and changes neither ws, isConnected,
\* the handlers nor any socket: the connection stays open.
C19_UnknownUpstreamTagIgnored ==
    [][\A i \in DOMAIN socks :
          UpstreamMessage(i, Msg("x.unknown", ""))
              => /\ handleOpenAIMessage(lastUp').type = "none"
                 /\ UNCHANGED <<ws, isConnected, eventHandlers, socks>>
                 /\ UNCHANGED <<clientOut, uncaught>>]_vars

\* an unknown tag was delivered on the open socket of a connected session
C19_Witness ==
    /\ lastUp = Msg("x.unknown", "")
    /\ isConnected
    /\ ws # 0
    /\ socks[ws].readyState = "OPEN"

\* C20: an upstream protocol event of type error changes neither ws nor
\* isConnected and closes no socket; a socket of the session stops being
\* open or connecting only in an end_session, in the close of the client
\* socket, or when the socket itself errors or closes.
C20_ErrorEventKeepsConnection ==
    [][/\ \A i \in DOMAIN socks :
             UpstreamMessage(i, Msg("error", ""))
                 => UNCHANGED <<ws, isConnected, socks>>
       /\ (\E i \in DOMAIN socks : Live(socks[i]) /\ ~Live(socks'[i]))
              => \/ ClientEnd
                 \/ ClientClose
                 \/ \E j \in DOMAIN socks : UpstreamError(j) \/ UpstreamClose(j)]_vars

\* an error event was delivered and the session is still connected, and
\* took audio after it
C20_Witness ==
    /\ lastUp = Msg("error", "")
    /\ isConnected
    /\ ws # 0
    /\ socks[ws].readyState = "OPEN"
    /\ Len(socks[ws].sent) = 2

\* C23: a start_session processed while the upstream client is connected
\* creates no WebSocket, sends nothing upstream and leaves ws and
\* isConnected as they are; its handler still replies session_started.
C23_RedundantStartIsNoOp ==
    [][/\ (ClientStart /\ isConnected)
             => /\ UNCHANGED <<ws, isConnected, socks>>
                /\ pending' = Append(pending, "session_started")
       /\ (Reply /\ Head(pending) = "session_started")
             => clientOut' = Append(clientOut, Msg("session_started", ""))]_vars

\* a second start_session on a connected session: still one socket, one
\* session configuration sent, and two session_started replies
C23_Witness ==
    /\ inLog = <<Msg("start_session", ""), Msg("start_session", "")>>
    /\ Len(socks) = 1
    /\ socks[1].readyState = "OPEN"
    /\ socks[1].sent = <<SessionConfig>>
    /\ ws = 1 /\ isConnected
    /\ clientOut = <<Msg("connected", ""), Msg("session_started", ""),
                     Msg("session_started", "")>>

\* C24: the upstream WebSockets the session has created are at most as many
\* as the start_session messages it has processed, so no upstream error or
\* close is followed by a connection the client did not ask for.
C24_NoAutomaticReconnect ==
    Len(socks) <= Len(SelectSeq(inLog, LAMBDA m : m.type = "start_session"))

\* the upstream closed an open session and audio came after it: no second
\* socket was created
C24_Witness ==
    /\ inLog = <<Msg("start_session", ""), Msg("audio_data", "a1")>>
    /\ Len(socks) = 1
    /\ socks[1].readyState = "CLOSED"
    /\ socks[1].closeCalls = 0
    /\ socks[1].sent = <<SessionConfig>>

\* C25: an upstream socket does not stay connecting for ever: the open
\* attempt ends, connected or failed, even if the upstream never answers.
C25_OpenAttemptBounded ==
    \A i \in 1..MaxMsgs :
        (i \in DOMAIN socks /\ socks[i].readyState = "CONNECTING")
            ~> (i \in DOMAIN socks /\ socks[i].readyState # "CONNECTING")

(***************************************************************************)
(* Properties of the peer negotiation (checked under SpecRtc).             *)
(***************************************************************************)
IceCalls == SelectSeq(rtcLog, LAMBDA e : e.type = "webrtc_ice_candidate")

\* the candidates received so far, in arrival order
CandsReceived == [i \in 1..Len(IceCalls) |-> IceCalls[i].data]

LastOut == clientOut[Len(clientOut)]

\* C4: while no remote description is set, every candidate received is
\* still in the pending queue and none has been passed to addIceCandidate.
C4_CandidatesKeptUntilRemote ==
    (clientOpen /\ pc.remoteDescription = NullDesc)
        => /\ iceCandidates = CandsReceived
           /\ pc.iceRejected = <<>>

\* C5: once a remote description is set and the calls made on the peer
\* connection have settled, every candidate received has been applied once,
\* in arrival order, and the pending queue is empty.
C5_QueuedCandidatesApplied ==
    (clientOpen /\ peerConnection # 0 /\ pc.remoteDescription # NullDesc
                /\ opChain = <<>>)
        => /\ iceCandidates = <<>>
           /\ pc.iceAdded = CandsReceived

\* two handleOffer calls with valid offers and nothing else, the second made
\* after the first had completed, and both completed
TwoOffersDone ==
    /\ Len(rtcLog) = 2
    /\ rtcLog[1].type = "webrtc_offer" /\ rtcLog[1].data # "bad"
    /\ rtcLog[2].type = "webrtc_offer" /\ rtcLog[2].data # "bad"
    /\ rtcLog[2].idle
    /\ opChain = <<>>
    /\ clientOpen

\* C6 as stated: the second of two consecutive handleOffer calls fails with
\* an error reported to the client, no second webrtc_answer is sent and the
\* description pair of the first offer is kept.
C6_SecondOfferRejected ==
    TwoOffersDone
        => /\ clientOut = <<Msg("connected", ""),
                            Msg("webrtc_answer", rtcLog[1].data), OfferFailed>>
           /\ pc.remoteDescription = Desc("offer", rtcLog[1].data)
           /\ pc.localDescription = Desc("answer", rtcLog[1].data)

\* C6 as amended: a handleOffer with a valid offer made right after another
\* handleOffer has completed, in signaling state stable, is accepted as a
\* renegotiation: its offer becomes the remote description, the answer to it
\* the local description, and that answer, not an error, is what the client
\* is sent.
C6_SecondOfferRenegotiates ==
    LET n == Len(rtcLog)
    IN (/\ n >= 2
        /\ rtcLog[n - 1].type = "webrtc_offer"
        /\ rtcLog[n].type = "webrtc_offer" /\ rtcLog[n].data # "bad"
        /\ rtcLog[n].idle /\ rtcLog[n].sig = "stable"
        /\ opChain = <<>>
        /\ clientOpen)
           => /\ LastOut = Msg("webrtc_answer", rtcLog[n].data)
              /\ pc.remoteDescription = Desc("offer", rtcLog[n].data)
              /\ pc.localDescription = Desc("answer", rtcLog[n].data)
              /\ pc.signalingState = "stable"

\* two valid offers handled one after the other, each answered
C6_Witness ==
    /\ TwoOffersDone
    /\ rtcLog[1].data = "o1" /\ rtcLog[2].data = "o2"
    /\ clientOut = <<Msg("connected", ""), Msg("webrtc_answer", "o1"),
                     Msg("webrtc_answer", "o2")>>

\* C7: handleAnswer sets a remote description only in have-local-offer.
\* With no peer connection, and whenever its setRemoteDescription settles in
\* any other signaling state, it sends the client an error and leaves the
\* descriptions and the signaling state as they were.
C7_AnswerOnlyFromLocalOffer ==
    [][/\ \A sdp \in AnswerSdps :
             (ClientAnswer(sdp) /\ peerConnection = 0)
                 => /\ clientOut' = Append(clientOut, AnswerFailed)
                    /\ UNCHANGED <<peerConnection, pc, opChain>>
       /\ (/\ opChain # <<>>
           /\ Head(opChain).k = "answer"
           /\ pc.signalingState # "have-local-offer"
           /\ \E rollback \in BOOLEAN : PcStep(rollback))
              => /\ clientOut' = Append(clientOut, AnswerFailed)
                 /\ pc' = pc]_vars

\* an answer sent after a completed offer/answer exchange (stable) was
\* refused and the remote offer kept
C7_Witness ==
    /\ Len(rtcLog) = 2
    /\ rtcLog[1].type = "webrtc_offer" /\ rtcLog[1].data = "o1"
    /\ rtcLog[2].type = "webrtc_answer" /\ rtcLog[2].data = "a1"
    /\ rtcLog[2].sig = "stable"
    /\ opChain = <<>>
    /\ LastOut = AnswerFailed
    /\ pc.remoteDescription = Desc("offer", "o1")
    /\ pc.signalingState = "stable"

\* C15: the handler of a client message starts only after the handlers of
\* the earlier messages have run to completion, awaited steps included: no
\* signaling message is dispatched while a call made by an earlier handler
\* is still outstanding on the peer connection.
C15_HandlersSerialized ==
    (\A k \in DOMAIN rtcLog : rtcLog[k].type # "createOffer")
        => \A k \in DOMAIN rtcLog : rtcLog[k].idle

\* the last call is a webrtc_offer that failed and was reported, and all the
\* calls before it were ICE candidates, which had found no peer connection
\* and so were stored
OfferFailedOnFreshState ==
    LET n == Len(rtcLog)
    IN /\ n >= 1
       /\ rtcLog[n].type = "webrtc_offer"
       /\ \A k \in 1..(n - 1) : rtcLog[k].type = "webrtc_ice_candidate"
       /\ opChain = <<>>
       /\ LastOut = OfferFailed
       /\ clientOpen

\* C21: when handleOffer fails and reports the error, the negotiation state
\* is what it was before the call: here no peer connection, no description,
\* and the candidates received still in the pending queue.
C21_FailedOfferLeavesState ==
    OfferFailedOnFreshState
        => /\ peerConnection = 0
           /\ pc.remoteDescription = NullDesc
           /\ pc.localDescription = NullDesc
           /\ iceCandidates = CandsReceived

\* C22: from every state cleanup leaves the peer connection handle null, the
\* pending ICE queue empty and isInitialized false, and a second call right
\* after it changes nothing, with no further close() on a peer connection.
C22_CleanupIdempotent ==
    LET r1 == cleanup(Rtc)
    IN /\ r1.peerConnection = 0
       /\ r1.iceCandidates = <<>>
       /\ ~r1.isInitialized
       /\ cleanup(r1) = r1

\* the client socket closed with an offer still in negotiation and a
\* candidate in the queue: the peer connection was closed once
C22_Witness ==
    /\ ~clientOpen
    /\ Len(rtcLog) = 2
    /\ rtcLog[1].type = "webrtc_offer"
    /\ rtcLog[2].type = "webrtc_ice_candidate" /\ ~rtcLog[2].idle
    /\ pc.closeCalls = 1
    /\ peerConnection = 0
    /\ iceCandidates = <<>>
    /\ ~isInitialized

(***************************************************************************)
(* Properties of the dispatcher (checked under SpecSession).               *)
(***************************************************************************)
\* the fields of the two services and the objects they hold
svcState == <<ws, isConnected, eventHandlers, socks>>
sigState == <<peerConnection, iceCandidates, isInitialized, pc, opChain>>

\* C11: a client message whose type the dispatcher does not know appends
\* exactly one error naming the type to the client's messages and changes
\* nothing in the upstream client or in the peer negotiation coordinator.
C11_UnknownTypeRejected ==
    [][\A t \in UnknownTypes :
          ClientUnknown(t)
              => /\ clientOut' = Append(clientOut,
                                        Msg("error", "Unknown message type: " \o t))
                 /\ UNCHANGED svcState
                 /\ UNCHANGED sigState]_vars

\* a ping was answered while the upstream session was open and an offer was
\* being negotiated
C11_Witness ==
    /\ inLog # <<>>
    /\ LastIn = Msg("ping", "")
    /\ LastOut = Msg("error", "Unknown message type: ping")
    /\ ws # 0 /\ isConnected
    /\ peerConnection # 0 /\ opChain # <<>>

\* the last message dispatched was an end_session, its handler has completed
\* and every signaling message came before it
EndSessionDone ==
    /\ inLog # <<>>
    /\ LastIn.type = "end_session"
    /\ pending = <<>>
    /\ \A k \in DOMAIN rtcLog : rtcLog[k].after < Len(inLog)
    /\ clientOpen

\* C13 as stated: once an end_session has been handled, the peer negotiation
\* coordinator is torn down as well: the peer connection is released and the
\* ICE candidate queue is empty.
C13_EndSessionTearsDownBoth ==
    EndSessionDone => (peerConnection = 0 /\ iceCandidates = <<>>)

\* C13 as amended: end_session tears down the upstream session only.  Its
\* handler leaves ws null and isConnected false and changes nothing of the
\* peer negotiation coordinator, before and after its await; the peer
\* connection is released and the ICE queue cleared by the close of the
\* client socket.
C13_EndSessionKeepsPeer ==
    [][/\ ClientEnd => (ws' = 0 /\ ~isConnected' /\ UNCHANGED sigState)
       /\ Reply => UNCHANGED sigState
       /\ ClientClose => (peerConnection' = 0 /\ iceCandidates' = <<>>)]_vars

\* an offer was answered, then end_session handled: the peer connection is
\* still there, with the descriptions of the exchange
C13_Witness ==
    /\ EndSessionDone
    /\ clientOut = <<Msg("connected", ""), Msg("webrtc_answer", "o1"),
                     Msg("session_ended", "")>>
    /\ peerConnection # 0
    /\ pc.signalingState = "stable"
    /\ pc.remoteDescription = Desc("offer", "o1")

\* C14: once the client socket has closed, whatever the session was doing,
\* nothing was thrown, no upstream socket of the session is open or
\* connecting, the peer connection handle is null and the ICE queue empty.
C14_CloseTearsDownAll ==
    ~clientOpen
        => /\ ~uncaught
           /\ LiveSockets = {}
           /\ peerConnection = 0
           /\ iceCandidates = <<>>

\* C17: a client message that cannot be parsed appends one error reply to
\* the client's messages, leaves the connection open and changes nothing in
\* either service, so the messages after it are dispatched as usual.
C17_MalformedClientMessage ==
    [][ClientMalformed
          => /\ clientOut' = Append(clientOut, Msg("error", "Invalid message format"))
             /\ clientOpen'
             /\ UNCHANGED svcState
             /\ UNCHANGED sigState
             /\ UNCHANGED pending]_vars

\* after an unparseable message the session was started and an offer
\* answered
C17_Witness ==
    /\ inLog = <<Msg("malformed", ""), Msg("start_session", "")>>
    /\ Len(rtcLog) = 1 /\ rtcLog[1].type = "webrtc_offer" /\ rtcLog[1].after = 2
    /\ clientOut = <<Msg("connected", ""), Msg("error", "Invalid message format"),
                     Msg("session_started", ""), Msg("webrtc_answer", "o1")>>
    /\ isConnected
    /\ clientOpen

(***************************************************************************)
(* Properties of the workflow webhook (checked under SpecN8n).             *)
(***************************************************************************)
Count(log, t) == Len(SelectSeq(log, LAMBDA m : m.type = t))

\* C26: every trigger_n8n gets exactly one n8n_response, whether the
\* webhook succeeds, fails, times out or is not configured: while the client
\* socket is open, the n8n_response messages sent and the ones still owed
\* (webhook calls in flight, handlers about to resume) are as many as the
\* trigger_n8n messages processed, nothing is thrown, and neither the
\* trigger_n8n handler nor the end of the webhook call changes the upstream
\* client or the peer negotiation coordinator.
C26_WebhookAnsweredOnce ==
    /\ [](clientOpen
            => /\ Count(clientOut, "n8n_response") + n8nInFlight
                   + Len(SelectSeq(pending, LAMBDA k : k = "n8n_response"))
                      = Count(inLog, "trigger_n8n")
               /\ ~uncaught)
    /\ [][(ClientN8n \/ \E outcome \in Outcomes : N8nDone(outcome))
             => (UNCHANGED svcState /\ UNCHANGED sigState)]_vars

\* on a connected session with a peer connection, a webhook call that got
\* no response was answered with its failure
C26_Witness ==
    /\ inLog = <<Msg("start_session", ""), Msg("trigger_n8n", "")>>
    /\ LastOut = Msg("n8n_response",
                     "success: false, error: No response from N8N webhook")
    /\ Count(clientOut, "n8n_response") = 1
    /\ n8nInFlight = 0
    /\ isConnected /\ ws # 0
    /\ peerConnection # 0
    /\ clientOpen

(***************************************************************************)
(* Properties of two connections (checked under SpecTwo).                  *)
(***************************************************************************)
\* C27: with two connections, an event of one never changes the services,
\* the socket or the messages of the other, and what an event of the second
\* does is computed from the second's state alone.
C27_ConnectionsIsolated ==
    [][/\ StepA => UNCHANGED connB
       /\ StepB => UNCHANGED connA]_vars

\* both connections hold an open upstream session of their own, with
\* different traffic on each
C27_Witness ==
    /\ ws = 1 /\ isConnected
    /\ socks = <<[readyState |-> "OPEN", closeCalls |-> 0,
                  sent |-> <<SessionConfig, Msg("input_audio_buffer.append", "a1")>>]>>
    /\ connB.ws = 1 /\ connB.isConnected
    /\ connB.socks = <<[readyState |-> "OPEN", closeCalls |-> 0,
                        sent |-> <<SessionConfig>>]>>
    /\ clientOut = <<Msg("connected", ""), Msg("session_started", "")>>
    /\ connB.out = <<Msg("connected", ""), Msg("session_started", "")>>

\* C28: in the browser WebSocketClient reconnectAttempts stays within
\* 0..maxReconnectAttempts, every automatic reconnect is scheduled with the
\* delay reconnectDelay * 2^attempt, attempt being the value of
\* reconnectAttempts before the call (delays 1000, 2000, 4000, 8000, 16000),
\* and none is scheduled when reconnectAttempts equals maxReconnectAttempts.
C28_ReconnectBackoff ==
    /\ wsClient.reconnectAttempts \in 0..maxReconnectAttempts
    /\ \A k \in DOMAIN wsClient.delays :
          LET d == wsClient.delays[k]
          IN /\ d.attempt \in 0..(maxReconnectAttempts - 1)
             /\ d.delay = reconnectDelay * 2 ^ d.attempt
             /\ d.delay \in {1000, 2000, 4000, 8000, 16000}

\* five automatic reconnects in a row, each after a failed connection, and a
\* sixth failure after which no timer is pending
C28_Witness ==
    /\ wsClient.delays = <<[attempt |-> 0, delay |-> 1000],
                           [attempt |-> 1, delay |-> 2000],
                           [attempt |-> 2, delay |-> 4000],
                           [attempt |-> 3, delay |-> 8000],
                           [attempt |-> 4, delay |-> 16000]>>
    /\ wsClient.reconnectAttempts = maxReconnectAttempts
    /\ Len(wsClient.sockets) = 6
    /\ \A i \in DOMAIN wsClient.sockets : wsClient.sockets[i].readyState = "CLOSED"
    /\ wsClient.timers = 0

\* C29: every upstream socket in the open state has been sent session.update
\* exactly once, as its first message, so before any
\* input_audio_buffer.append.
C29_ConfigOncePerOpenSocket ==
    \A i \in DOMAIN socks :
        socks[i].readyState = "OPEN" =>
            /\ Count(socks[i].sent, "session.update") = 1
            /\ Head(socks[i].sent) = SessionConfig

\* C30: the internal event handleOpenAIMessage emits for the upstream event
\* last delivered is speech_started or speech_stopped for the two
\* speech-boundary tags, audio_response with the delta for
\* response.audio.delta, text_response with the delta for
\* response.text.delta, response_complete for response.done, error for
\* error, and none for every other tag.
C30_TranslationTable ==
    LET ev == handleOpenAIMessage(lastUp)
    IN CASE lastUp.type = "input_audio_buffer.speech_started"
                -> ev = Msg("speech_started", "")
         [] lastUp.type = "input_audio_buffer.speech_stopped"
                -> ev = Msg("speech_stopped", "")
         [] lastUp.type = "response.audio.delta"
                -> ev = Msg("audio_response", lastUp.data)
         [] lastUp.type = "response.text.delta"
                -> ev = Msg("text_response", lastUp.data)
         [] lastUp.type = "response.done" -> ev = Msg("response_complete", "")
         [] lastUp.type = "error" -> ev = Msg("error", "")
         [] OTHER -> ev.type = "none"

\* the addIceCandidate calls still on the chain
IceOps == SelectSeq(opChain, LAMBDA o : o.op = "addIceCandidate")

\* C31: a candidate that cannot be applied is confined to itself: neither
\* the arrival of a candidate nor the settling of an addIceCandidate call
\* sends the client anything or ends the process, and while the connection
\* is up every candidate received is either still stored, or on its way to
\* addIceCandidate, or has been passed to it (so a rejected stored candidate
\* takes none of the others with it).
C31_IceFailureConfined ==
    /\ [](clientOpen =>
            Len(iceCandidates) + Len(IceOps) + Len(pc.iceAdded)
                + Len(pc.iceRejected) = Len(CandsReceived))
    /\ [][/\ (\E c \in Candidates : ClientIce(c))
               => UNCHANGED <<clientOut, clientOpen, uncaught>>
          /\ (\E rollback \in BOOLEAN :
                  PcStep(rollback) /\ Head(opChain).op = "addIceCandidate")
               => UNCHANGED <<clientOut, clientOpen, uncaught>>]_vars

\* two candidates were stored, the first one unusable; the offer that
\* created the peer connection passed both to addIceCandidate, and the
\* client was told nothing but the answer to its offer
C31_Witness ==
    /\ CandsReceived = <<"bad", "c1">>
    /\ pc.iceRejected = <<"bad", "c1">>
    /\ opChain = <<>>
    /\ pc.remoteDescription # NullDesc
    /\ clientOut = <<Msg("connected", ""), Msg("webrtc_answer", "o1")>>

\* C32: isConnected is true only while this.ws is a socket and that socket
\* is open, and the 'open', 'error' or 'close' event of a socket that is not
\* this.ws (replaced by a later start_session, or ended) leaves isConnected
\* as it is.
C32_IsConnectedIsCurrent ==
    /\ [](isConnected => (ws # 0 /\ socks[ws].readyState = "OPEN"))
    /\ [][\A i \in DOMAIN socks :
             (i # ws /\ (UpstreamOpen(i) \/ UpstreamError(i) \/ UpstreamClose(i)))
                 => UNCHANGED isConnected]_vars

SessionReplies ==
    SelectSeq(clientOut, LAMBDA m : m.type \in {"session_started", "session_ended"})

\* the client was told the session has started, has not ended it since, and
\* the upstream socket has neither failed nor closed
SessionAnnounced ==
    /\ SessionReplies # <<>>
    /\ SessionReplies[Len(SessionReplies)].type = "session_started"
    /\ ws # 0
    /\ Live(socks[ws])

\* C33: session_started is sent only when the upstream socket is open, and
\* an audio_data message received after it (before any end_session or
\* upstream close) is forwarded upstream.
C33_StartedMeansOpen ==
    [][/\ (Reply /\ Head(pending) = "session_started")
            => (ws # 0 /\ socks[ws].readyState = "OPEN")
       /\ \A p \in AudioChunks :
            (ClientAudio(p) /\ SessionAnnounced)
                => socks'[ws].sent =
                       Append(socks[ws].sent, Msg("input_audio_buffer.append", p))]_vars

BrowserLive ==
    {i \in DOMAIN wsClient.sockets :
        wsClient.sockets[i].readyState \in {"CONNECTING", "OPEN"}}

\* C34: in the browser WebSocketClient at most one WebSocket it created is
\* open or connecting, and at most one heartbeat interval is running.
C34_OneSocketOneHeartbeat ==
    /\ Cardinality(BrowserLive) <= 1
    /\ wsClient.intervals <= 1

\* C35: once disconnect() has been called the client creates no WebSocket
\* unless connect() or reconnect() is called: no reconnect timer, scheduled
\* before the disconnect or after it, opens one.
C35_NoConnectAfterDisconnect ==
    [][(wsClient.disconnected /\ Len(wsClient'.sockets) > Len(wsClient.sockets))
          => (WscConnect \/ WscReconnect)]_vars

\* the message types the browser WebSocketClient sends
ClientTypes == {"start_session", "end_session", "audio_data", "webrtc_offer",
                "webrtc_answer", "webrtc_ice_candidate", "trigger_n8n", "ping"}

\* C36: no message of a type the browser client sends is answered with the
\* 'Unknown message type' error.
C36_ClientTypesHandled ==
    \A t \in ClientTypes :
        \A k \in DOMAIN clientOut : clientOut[k] # UnknownType(t)

\* C37: the server never calls send on a client socket that has closed: the
\* replies sent after an awaited step are sent only while it is open.
C37_NoSendAfterClose == lateSends = 0

\* C38: isSessionActive is true only if the start_session of the
\* conversation was sent, on the WebSocket that is the current connection.
C38_ActiveMeansStartSent ==
    app.isSessionActive
        => (wsClient.ws # 0 /\ app.startedOn = wsClient.ws)

\* C40: between event handlers the recorder is recording exactly when
\* isSessionActive is true.
C40_RecordingIffActive == app.isRecording <=> app.isSessionActive

\* C39: once the browser's peer connection has a remote description and the
\* calls made on it have settled, the stored list is empty and every
\* candidate received has been applied, in arrival order.
C39_ClientStoredCandidatesApplied ==
    (webrtc.peerConnection # 0 /\ webrtc.pc.remoteDescription # NullDesc
                               /\ webrtc.opChain = <<>>)
        => /\ webrtc.iceCandidates = <<>>
           /\ webrtc.pc.iceAdded = webrtc.cands

=============================================================================
